---- MODULE Spec2Model ----
(***************************************************************************)
(* A model of geocat.viz util.py: the contour label placer plotCLabels,    *)
(* the colormap truncator, the cyclic-longitude padder, the title setter   *)
(* and the two deprecated wrappers.  Every function runs synchronously to  *)
(* completion, so each is one action; what persists between calls (the     *)
(* texts drawn on the axes, the label texts of the contour set, pyplot's   *)
(* current axes, the colormap registry, the warnings filter list) is the   *)
(* state.                                                                  *)
(***************************************************************************)
EXTENDS Integers, Sequences, FiniteSets, TLC

VARIABLES
    da,          \* plotCLabels: the labeled grid [lon, lat, data]; data in tenths
    gca,         \* pyplot's process-wide current axes
    texts,       \* every Text object drawn so far, indexed by identity
    labelTexts,  \* contours.labelTexts: identities of the contour set's labels
    call,        \* the arguments of the plotCLabels call that ran (<<>> before it)
    outcome,     \* "none" | "returned" | "raised"
    allLabels,   \* the list plotCLabels returned (identities)
    registry,    \* truncate_colormap: matplotlib's process-wide name -> colormap
    cmCall,      \* the arguments of the last truncate_colormap call, its samples
    cmRet,       \* the colormap the last truncate_colormap call returned
    cmCalls,     \* truncate_colormap calls made
    cyIn,        \* xr_add_cyclic_longitudes: the array passed as da
    cyOut,       \* its result: [status, da], status "none" before the call
    titles,      \* set_titles_and_labels: the axes' three titles and two labels
    titleCall,   \* the arguments of the last set_titles_and_labels call
    titleCalls,  \* set_titles_and_labels calls made
    filters,     \* deprecated wrappers: warnings.filters, first entry first
    warnLog,     \* the functions whose DeprecationWarning was shown
    axTicks,     \* minor ticks per major on x and y (0: never set)
    deprCall,    \* the last deprecated call: [fn, arg, result]
    deprCalls    \* deprecated calls made

labelVars == <<da, gca, texts, labelTexts, call, outcome, allLabels>>
cmapVars == <<registry, cmCall, cmRet, cmCalls>>
cyclicVars == <<cyIn, cyOut>>
titleVars == <<titles, titleCall, titleCalls>>
warnVars == <<filters, warnLog, axTicks, deprCall, deprCalls>>
vars == <<labelVars, cmapVars, cyclicVars, titleVars, warnVars>>

(***************************************************************************)
(* Bounds of the model.                                                    *)
(***************************************************************************)
MaxReg == 1
MaxLow == 2
MaxHigh == 2
MaxCmapCalls == 2
MaxTitleCalls == 2
MaxFilters == 2
MaxDeprCalls == 3

\* Sequences over S of length at most n.
SeqUpTo(S, n) == UNION {[1..k -> S] : k \in 0..n}

(***************************************************************************)
(* plotCLabels                                                             *)
(***************************************************************************)

\* The grid of the specification's end-to-end scenario, and one whose values
\* have fractional parts (ties included).  Values are in tenths.
GridScenario ==
    [lon |-> <<0, 90, 180>>, lat |-> <<-45, 0, 45>>,
     data |-> << <<10, 20, 30>>, <<40, 50, 60>>, <<70, 80, 90>> >>]
GridFractional ==
    [lon |-> <<0, 90, 180>>, lat |-> <<-45, 0, 45>>,
     data |-> << <<25, 35, -15>>, <<-25, 44, 56>>, <<5, 15, 99>> >>]
Grids == {GridScenario, GridFractional}

\* The axes the caller passes as `ax`, and another axes of the figure.
Axes == {"ax", "other"}

\* round() of a float given in tenths: to the nearest integer, a tie to the
\* even neighbour.
round(t) ==
    LET q == t \div 10
        r == t % 10
    IN  IF r < 5 THEN q
        ELSE IF r > 5 THEN q + 1
        ELSE IF q % 2 = 0 THEN q ELSE q + 1

\* coordarr[z][y] = (lon[y], lat[z]): one pair per cell of the value array.
coordarr(d) ==
    [z \in 1..Len(d.lat) |-> [y \in 1..Len(d.lon) |-> <<d.lon[y], d.lat[z]>>]]

\* proj.transform_points for one point: a plate carree projection centred on
\* the date line shifts the longitude by 180 degrees.
transform_points(c) == <<c[1] - 180, c[2]>>

\* x[0], x[1] of every entry can be read (the entry has two components).
WellFormed(levels) == \A i \in 1..Len(levels) : Len(levels[i]) >= 2

\* The double loop over coordarr: p after it, <<>> standing for an unbound p.
\* Every matching cell assigns p, so the last one in scan order decides.
ScanGrid(d, coord, p) ==
    LET arr == coordarr(d)
        hits == {zy \in (1..Len(arr)) \X (1..Len(d.lon)) :
                    /\ arr[zy[1]][zy[2]][1] = coord[1]
                    /\ arr[zy[1]][zy[2]][2] = coord[2]}
        last == CHOOSE zy \in hits : \A o \in hits :
                    \/ o[1] < zy[1]
                    \/ (o[1] = zy[1] /\ o[2] <= zy[2])
    IN  IF hits = {} THEN p ELSE <<round(d.data[last[1]][last[2]])>>

\* The Text plt.text creates: it is drawn on pyplot's current axes.
PltText(letter, i, pos, p, cur) ==
    [kind |-> letter, idx |-> i, sub |-> p, pos |-> pos, rot |-> "default",
     bbox |-> "none", axes |-> cur, born |-> "call"]

\* lab.set_rotation('horizontal') when eHorizontal.
SetRotation(lab, eHorizontal) ==
    IF eHorizontal THEN [lab EXCEPT !.rot = "horizontal"] ELSE lab

\* A label put in front of the list instead of at its end.
AppendLabelFront(labels, id) == <<id>> \o labels

\* allLabels.append(lab)
AppendLabel(labels, id) == Append(labels, id)

\* The try/except loop over the low (or high) coordinates, from index i on.
\* f is the frame: the Text objects, the returned list so far, the local p.
RECURSIVE ExtremaLoop(_, _, _, _, _, _, _)
ExtremaLoop(f, d, levels, letter, eHorizontal, cur, i) ==
    IF i > Len(levels) THEN f
    ELSE
        LET p1 == ScanGrid(d, levels[i], f.p)
        IN  IF p1 = <<>>
            THEN \* str(p) raises NameError: caught, continue
                 ExtremaLoop(f, d, levels, letter, eHorizontal, cur, i + 1)
            ELSE
                LET lab == SetRotation(
                               PltText(letter, i, transform_points(levels[i]),
                                       p1[1], cur),
                               eHorizontal)
                    id == Len(f.texts) + 1
                    f1 == [f EXCEPT !.texts = Append(@, lab),
                                    !.allLabels = AppendLabel(@, id),
                                    !.p = p1]
                IN  ExtremaLoop(f1, d, levels, letter, eHorizontal, cur, i + 1)

\* One extremum block: skipped for an empty list; the comprehensions that
\* read x[0] and x[1] of every entry run before the loop, outside the try.
ExtremaBlock(f, d, levels, letter, eHorizontal, cur) ==
    IF f.raised \/ levels = <<>> THEN f
    ELSE IF ~WellFormed(levels) THEN [f EXCEPT !.raised = TRUE]
    ELSE ExtremaLoop(f, d, levels, letter, eHorizontal, cur, 1)

\* ax.clabel(contours, manual=...): one label per point, drawn on ax and
\* appended to the contour set's labelTexts.
RECURSIVE Clabel(_, _, _)
Clabel(f, points, i) ==
    IF i > Len(points) THEN f
    ELSE
        LET lab == [kind |-> "R", idx |-> i, sub |-> 0, pos |-> points[i],
                    rot |-> "contour", bbox |-> "none", axes |-> "ax",
                    born |-> "call"]
            id == Len(f.texts) + 1
        IN  Clabel([f EXCEPT !.texts = Append(@, lab),
                             !.labelTexts = Append(@, id)], points, i + 1)

\* [allLabels.set_rotation('horizontal') for txt in contours.labelTexts]:
\* a list has no set_rotation, so the first iteration raises AttributeError.
RegularRotation(f, rHorizontal) ==
    IF rHorizontal /\ f.labelTexts # <<>> THEN [f EXCEPT !.raised = TRUE] ELSE f

\* The regular block.
RegularBlock(f, Clevels, rHorizontal) ==
    IF Clevels = <<>> THEN f
    ELSE IF ~WellFormed(Clevels) THEN [f EXCEPT !.raised = TRUE]
    ELSE
        LET points == [i \in 1..Len(Clevels) |-> transform_points(Clevels[i])]
            f1 == Clabel(f, points, 1)
            f2 == [f1 EXCEPT !.allLabels = @ \o f1.labelTexts]
        IN  RegularRotation(f2, rHorizontal)

\* [txt.set_bbox(dict(facecolor='w', ...)) for txt in allLabels]
WhiteBbox(f, whitebbox) ==
    IF f.raised \/ ~whitebbox THEN f
    ELSE [f EXCEPT !.texts =
            [k \in 1..Len(@) |->
                IF \E j \in 1..Len(f.allLabels) : f.allLabels[j] = k
                THEN [@[k] EXCEPT !.bbox = "white"] ELSE @[k]]]

\* The body of plotCLabels on the frame it starts with.
Body(d, cur, txts, ltexts, a) ==
    LET f0 == [texts |-> txts, labelTexts |-> ltexts, allLabels |-> <<>>,
               p |-> <<>>, raised |-> FALSE]
        f1 == RegularBlock(f0, a.Clevels, a.rHorizontal)
        f2 == ExtremaBlock(f1, d, a.lowClevels, "L", a.eHorizontal, cur)
        f3 == ExtremaBlock(f2, d, a.highClevels, "H", a.eHorizontal, cur)
    IN  WhiteBbox(f3, a.whitebbox)

\* Label coordinates the caller may pass: two grid points, a point whose
\* longitude is on no axis, a tuple with one component.
RegCoords == {<<90, 0>>, <<90>>}
LowCoords == {<<90, 0>>, <<0, -45>>, <<91, 0>>, <<90>>}
HighCoords == {<<180, 45>>, <<91, 0>>, <<90>>}

\* A label the caller put on the contour set before the call (ax.clabel).
PriorLabel ==
    [kind |-> "R", idx |-> 1, sub |-> 0, pos |-> <<0, 0>>, rot |-> "contour",
     bbox |-> "none", axes |-> "ax", born |-> "prior"]

IdleLabels ==
    /\ da = GridScenario /\ gca = "ax" /\ texts = <<>> /\ labelTexts = <<>>
    /\ call = <<>> /\ outcome = "none" /\ allLabels = <<>>

InitLabels ==
    /\ da \in Grids
    /\ gca \in Axes
    /\ \/ texts = <<>> /\ labelTexts = <<>>
       \/ texts = <<PriorLabel>> /\ labelTexts = <<1>>
    /\ call = <<>>
    /\ outcome = "none"
    /\ allLabels = <<>>

plotCLabels ==
    /\ outcome = "none"
    /\ \E Clevels \in SeqUpTo(RegCoords, MaxReg),
          lowClevels \in SeqUpTo(LowCoords, MaxLow),
          highClevels \in SeqUpTo(HighCoords, MaxHigh),
          whitebbox \in BOOLEAN, rHorizontal \in BOOLEAN, eHorizontal \in BOOLEAN :
          LET a == [Clevels |-> Clevels, lowClevels |-> lowClevels,
                    highClevels |-> highClevels, whitebbox |-> whitebbox,
                    rHorizontal |-> rHorizontal, eHorizontal |-> eHorizontal]
              f == Body(da, gca, texts, labelTexts, a)
          IN  /\ call' = a
              /\ texts' = f.texts
              /\ labelTexts' = f.labelTexts
              /\ outcome' = IF f.raised THEN "raised" ELSE "returned"
              /\ allLabels' = IF f.raised THEN <<>> ELSE f.allLabels
    /\ UNCHANGED <<da, gca>>

(***************************************************************************)
(* Properties of plotCLabels.                                              *)
(***************************************************************************)
Done == outcome # "none"
Returned == outcome = "returned"

AllWellFormed ==
    WellFormed(call.Clevels) /\ WellFormed(call.lowClevels) /\ WellFormed(call.highClevels)

\* The regular block of the call that ran reaches its set_rotation line.
RotatesRegular == call.rHorizontal /\ call.Clevels # <<>>

\* (lon, lat) is a pair of the grid's coordinate axes.
OnGrid(c) ==
    /\ \E y \in 1..Len(da.lon) : da.lon[y] = c[1]
    /\ \E z \in 1..Len(da.lat) : da.lat[z] = c[2]

\* The value (in tenths) of the grid cell at (lon, lat).
CellValue(c) ==
    LET y == CHOOSE y \in 1..Len(da.lon) : da.lon[y] = c[1]
        z == CHOOSE z \in 1..Len(da.lat) : da.lat[z] = c[2]
    IN  da.data[z][y]

\* The Text objects this call created for entry i of its low or high list.
LabelsFor(letter, i) ==
    {k \in 1..Len(texts) :
        texts[k].born = "call" /\ texts[k].kind = letter /\ texts[k].idx = i}

CreatedByCall == {k \in 1..Len(texts) : texts[k].born = "call"}

\* No label for the entries of `levels` that are on no grid cell.
UnmatchedSkipped(levels, letter) ==
    \A i \in 1..Len(levels) : ~OnGrid(levels[i]) => LabelsFor(letter, i) = {}

\* One label, with the rounded cell value, at the projected place, for the
\* entries of `levels` that are on a grid cell.
MatchedLabelled(levels, letter) ==
    \A i \in 1..Len(levels) :
        (Len(levels[i]) >= 2 /\ OnGrid(levels[i])) =>
            /\ Cardinality(LabelsFor(letter, i)) = 1
            /\ \A k \in LabelsFor(letter, i) :
                /\ 10 * texts[k].sub - CellValue(levels[i]) \in -5..5
                /\ texts[k].pos = transform_points(levels[i])

\* C1: a low or high coordinate that is on no grid cell gets no label and
\* raises nothing, so the returned list holds one extremum label per
\* matching coordinate and none for the others.  Stated for the calls that
\* the failures of C3 (a malformed entry) and C4 (the regular rotation)
\* cannot reach, so that a violation is this claim's own.
C1_UnmatchedOmitted ==
    (Done /\ AllWellFormed /\ ~RotatesRegular) =>
        /\ Returned
        /\ UnmatchedSkipped(call.lowClevels, "L")
        /\ UnmatchedSkipped(call.highClevels, "H")

\* C2: every low (high) coordinate that is on a grid cell gets exactly one
\* label, L (H) subscripted with the cell's value rounded to the nearest
\* integer, at the projected location of the coordinate.  Stated for the
\* calls whose lists are well formed.
C2_MatchedLabelled ==
    (Done /\ AllWellFormed) =>
        /\ MatchedLabelled(call.lowClevels, "L")
        /\ MatchedLabelled(call.highClevels, "H")

\* The same for the calls that return: this is what the code guarantees.
C2_MatchedLabelledOnReturn ==
    Returned =>
        /\ MatchedLabelled(call.lowClevels, "L")
        /\ MatchedLabelled(call.highClevels, "H")

\* C3: a malformed entry in one of the lists never makes the call raise; its
\* label is omitted and the well-formed matching coordinates are labelled.
\* Stated for the calls that C4's failure cannot reach.
C3_MalformedTolerated ==
    (Done /\ ~RotatesRegular) =>
        /\ Returned
        /\ MatchedLabelled(call.lowClevels, "L")
        /\ MatchedLabelled(call.highClevels, "H")

\* C4: with the three lists non-empty the call returns for every combination
\* of the flags, and on return rHorizontal has made every regular label
\* horizontal, eHorizontal every extremum label, and whitebbox has given
\* every returned label a white box.  Stated for well-formed lists.
C4_FlagsApplied ==
    (/\ Done /\ AllWellFormed
     /\ call.Clevels # <<>> /\ call.lowClevels # <<>> /\ call.highClevels # <<>>) =>
        /\ Returned
        /\ call.rHorizontal =>
             \A k \in CreatedByCall : texts[k].kind = "R" => texts[k].rot = "horizontal"
        /\ call.eHorizontal =>
             \A k \in CreatedByCall : texts[k].kind # "R" => texts[k].rot = "horizontal"
        /\ call.whitebbox =>
             \A j \in 1..Len(allLabels) : texts[allLabels[j]].bbox = "white"

\* C6: every label the call creates is on the axes passed as ax, whatever
\* pyplot's current axes is.
C6_OnlyAxMutated ==
    Done => \A k \in CreatedByCall : texts[k].axes = "ax"

Rank(kind) == IF kind = "R" THEN 1 ELSE IF kind = "L" THEN 2 ELSE 3

\* The returned list is ordered: regular, low, high; within a kind, labels of
\* this call in the order of their input list, after the older ones.
Ordered ==
    \A j, k \in 1..Len(allLabels) : j < k =>
        LET a == texts[allLabels[j]]
            b == texts[allLabels[k]]
        IN  /\ allLabels[j] # allLabels[k]
            /\ Rank(a.kind) <= Rank(b.kind)
            /\ (a.kind = b.kind /\ a.born = "call" /\ b.born = "call") => a.idx < b.idx
            /\ (a.kind = b.kind /\ b.born = "prior") => a.born = "prior"

InReturned(k) == \E j \in 1..Len(allLabels) : allLabels[j] = k

\* C5 as stated: the returned list holds exactly the labels the call
\* created, regular then low then high, each in input order, and is empty
\* (with nothing created) when the three lists are empty.
C5_ExactlyCreated ==
    Returned =>
        /\ \A k \in 1..Len(texts) : InReturned(k) <=> k \in CreatedByCall
        /\ Ordered
        /\ (call.Clevels = <<>> /\ call.lowClevels = <<>> /\ call.highClevels = <<>>)
              => (allLabels = <<>> /\ CreatedByCall = {})

\* C5 amended: the returned list holds every label the call created and,
\* when Clevels is non-empty, also the labels the contour set already
\* carried, which come first; the order is as stated.
C5_CreatedAndCarried ==
    Returned =>
        /\ \A k \in CreatedByCall : InReturned(k)
        /\ \A k \in 1..Len(texts) : (InReturned(k) /\ k \notin CreatedByCall) =>
              (call.Clevels # <<>> /\ \E j \in 1..Len(labelTexts) : labelTexts[j] = k)
        /\ call.Clevels # <<>> =>
              \A j \in 1..Len(labelTexts) : InReturned(labelTexts[j])
        /\ Ordered
        /\ (call.Clevels = <<>> /\ call.lowClevels = <<>> /\ call.highClevels = <<>>)
              => (allLabels = <<>> /\ CreatedByCall = {})

\* A returned list with a carried label, a regular, a low and a high label.
C5_Witness ==
    /\ Returned
    /\ \E j \in 1..Len(allLabels) : texts[allLabels[j]].born = "prior"
    /\ \A kd \in {"R", "L", "H"} :
          \E j \in 1..Len(allLabels) :
              texts[allLabels[j]].born = "call" /\ texts[allLabels[j]].kind = kd
    /\ Len(call.lowClevels) >= 2
    /\ Cardinality(LabelsFor("L", 1)) = 1 /\ Cardinality(LabelsFor("L", 2)) = 1

(***************************************************************************)
(* truncate_colormap                                                       *)
(***************************************************************************)

\* The colormaps a caller truncates: a name and a lookup table.
Jet == [name |-> "jet", colors |-> <<10, 11, 12, 13, 14, 15, 16, 17, 18, 19>>]
Gray == [name |-> "gray", colors |-> <<0, 25, 50, 75, 100>>]
Sources == {Jet, Gray}

\* (minval, maxval) in thousandths; the last two round to the same two
\* decimals.
Ranges == {<<0, 1000>>, <<300, 700>>, <<304, 696>>}
SampleCounts == {2, 3}

\* The name argument: <<>> is None, <<"">> the empty string, and the last
\* one is spelled like a generated name.
NameArgs == {<<>>, <<"">>, <<"a">>, <<"trunc", "jet", 30, 70>>}

\* np.arange-like sampling that leaves the end point out.
linspace_open(minval, maxval, n) ==
    [i \in 1..n |-> minval * n + (i - 1) * (maxval - minval)]

\* np.linspace(minval, maxval, n): sample i is minval + (i-1)*(maxval-minval)/(n-1);
\* the entries are these values times (n - 1), in thousandths.
linspace(minval, maxval, n) ==
    [i \in 1..n |-> minval * (n - 1) + (i - 1) * (maxval - minval)]

\* cmap(x) for x = num / den in [0, 1]: entry int(x * N) of the table, the
\* last entry for x = 1.
Lookup(cmap, num, den) ==
    LET N == Len(cmap.colors)
        k == (num * N) \div den
    IN  cmap.colors[(IF k > N - 1 THEN N - 1 ELSE k) + 1]

\* "{:.2f}" of a value given in thousandths, as hundredths.
Fmt2(t) == (t + 5) \div 10

\* if not name: name = "trunc({n},{a:.2f},{b:.2f})"
ChosenName(cmap, minval, maxval, name) ==
    IF name = <<>> \/ name = <<"">>
    THEN <<"trunc", cmap.name, Fmt2(minval), Fmt2(maxval)>>
    ELSE name

\* LinearSegmentedColormap.from_list(name=name, colors=cmap(samples))
from_list(name, cmap, samples, n) ==
    [name |-> name,
     colors |-> [i \in 1..Len(samples) |-> Lookup(cmap, samples[i], 1000 * (n - 1))]]

\* cm.register_cmap(name, new_cmap): the registry maps name to new_cmap.
register_cmap(reg, name, g) ==
    [k \in DOMAIN reg \cup {name} |-> IF k = name THEN g ELSE reg[k]]

IdleCmap ==
    /\ registry = [k \in {<<"jet">>, <<"gray">>} |-> IF k = <<"jet">> THEN Jet ELSE Gray]
    /\ cmCall = <<>> /\ cmRet = <<>> /\ cmCalls = 0

truncate_colormap ==
    /\ cmCalls < MaxCmapCalls
    /\ \E cmap \in Sources, r \in Ranges, n \in SampleCounts, name \in NameArgs :
          LET samples == linspace(r[1], r[2], n)
              chosen == ChosenName(cmap, r[1], r[2], name)
              new_cmap == from_list(chosen, cmap, samples, n)
          IN  /\ cmCall' = [cmap |-> cmap, minval |-> r[1], maxval |-> r[2], n |-> n,
                            name |-> name, samples |-> samples]
              /\ registry' = register_cmap(registry, chosen, new_cmap)
              /\ cmRet' = new_cmap
    /\ cmCalls' = cmCalls + 1

\* C7: the returned colormap holds n samples of cmap taken evenly over
\* [minval, maxval], both ends included; the registry then maps the chosen
\* name to it, the chosen name being the name argument when one is given
\* (a non-empty string) and trunc(<cmap.name>,<minval>,<maxval>) with two
\* decimals otherwise; every other registered name keeps its colormap.
C7_TruncateRegisters ==
    [][cmCalls' # cmCalls =>
        LET c == cmCall'
            g == cmRet'
            given == c.name # <<>> /\ c.name # <<"">>
        IN  /\ Len(g.colors) = c.n /\ Len(c.samples) = c.n
            /\ c.samples[1] = c.minval * (c.n - 1)
            /\ c.samples[c.n] = c.maxval * (c.n - 1)
            /\ \A i \in 1..(c.n - 1) :
                  c.samples[i + 1] - c.samples[i] = c.samples[2] - c.samples[1]
            /\ \A i \in 1..c.n :
                  g.colors[i] = Lookup(c.cmap, c.samples[i], 1000 * (c.n - 1))
            /\ given => g.name = c.name
            /\ ~given =>
                  /\ Len(g.name) = 4 /\ g.name[1] = "trunc" /\ g.name[2] = c.cmap.name
                  /\ 10 * g.name[3] - c.minval \in -5..5
                  /\ 10 * g.name[4] - c.maxval \in -5..5
            /\ g.name \in DOMAIN registry' /\ registry'[g.name] = g
            /\ \A k \in DOMAIN registry :
                  /\ k \in DOMAIN registry'
                  /\ k # g.name => registry'[k] = registry[k]
    ]_vars

\* Two calls have registered one generated name between them: the second
\* replaced the first one's colormap, and the built-in names are still there.
C7_Witness ==
    /\ cmCalls = 2
    /\ cmCall.name = <<>> /\ cmCall.minval = 304 /\ cmCall.n = 3
    /\ DOMAIN registry = {<<"jet">>, <<"gray">>, <<"trunc", "gray", 30, 70>>}
    /\ registry[<<"trunc", "gray", 30, 70>>] = cmRet

(***************************************************************************)
(* xr_add_cyclic_longitudes                                                *)
(***************************************************************************)

\* Longitude axes: evenly spaced over the globe, evenly spaced over a part
\* of it, a single point, unevenly spaced.
LonAxes == {<<0, 120, 240>>, <<0, 90, 180, 270>>, <<0, 90, 180>>, <<0, 180>>,
            <<0>>, <<0, 100, 240>>}
DimOrders == {<<"lat", "lon">>, <<"lon", "lat">>}
CellValues == {1, 2}

\* The arrays a caller may pass: one latitude, the values laid out as dims
\* says.
InputArrays ==
    UNION {
        {[dims |-> dm, lon |-> lo, lat |-> <<0>>, values |-> v,
          attrs |-> [units |-> u], encoding |-> [dtype |-> e]] :
            v \in [1..(IF dm[1] = "lon" THEN Len(lo) ELSE 1) ->
                      [1..(IF dm[2] = "lon" THEN Len(lo) ELSE 1) -> CellValues]],
            u \in {"K", "m"}, e \in {"f4", "f8"}} :
        dm \in DimOrders, lo \in LonAxes}

\* np.allclose(delta_coord, delta_coord[0])
EvenlySpaced(coord) ==
    \A i \in 1..(Len(coord) - 1) : coord[i + 1] - coord[i] = coord[2] - coord[1]

\* The appended coordinate taken as the first one plus a full turn.
CyclicCoordTurn(coord) == Append(coord, coord[1] + 360)

\* ma.concatenate((coord, coord[-1:] + delta_coord[0]))
CyclicCoord(coord) == Append(coord, coord[Len(coord)] + (coord[2] - coord[1]))

\* ma.concatenate((data, data[..., 0:1]), axis=-1)
CyclicData(data) == [z \in 1..Len(data) |-> Append(data[z], data[z][1])]

\* cartopy's add_cyclic_point(data, coord) on the last axis of data: it
\* raises when coord has another length than that axis, has no second point
\* (delta_coord[0]) or is not equally spaced.
add_cyclic_point_ok(data, coord) ==
    /\ Len(coord) = Len(data[1])
    /\ Len(coord) >= 2
    /\ EvenlySpaced(coord)

\* The body: pad, then build the new array over da.dims; the constructor
\* raises when the padded axis is not the one named coord.
AddCyclic(d, coord) ==
    IF ~add_cyclic_point_ok(d.values, d[coord]) \/ d.dims[Len(d.dims)] # coord
    THEN [status |-> "raised", da |-> <<>>]
    ELSE [status |-> "returned",
          da |-> [d EXCEPT ![coord] = CyclicCoord(d[coord]),
                           !.values = CyclicData(d.values)]]

NotCalled == [status |-> "none", da |-> <<>>]

IdleCyclic ==
    /\ cyIn = <<>> /\ cyOut = NotCalled

xr_add_cyclic_longitudes ==
    /\ cyOut.status = "none"
    /\ cyOut' = AddCyclic(cyIn, "lon")
    /\ UNCHANGED cyIn

\* The input the function is written for: the longitude axis is the last
\* dimension, has at least two points and is evenly spaced.
CyclicInput ==
    /\ cyIn.dims[2] = "lon"
    /\ Len(cyIn.lon) >= 2
    /\ EvenlySpaced(cyIn.lon)

\* What the claim says of the result apart from the appended coordinate.
CyclicPadded ==
    LET n == Len(cyIn.lon)
        o == cyOut.da
    IN  /\ cyOut.status = "returned"
        /\ Len(o.lon) = n + 1
        /\ \A i \in 1..n : o.lon[i] = cyIn.lon[i]
        /\ \A z \in 1..Len(cyIn.values) :
              /\ Len(o.values[z]) = n + 1
              /\ \A i \in 1..n : o.values[z][i] = cyIn.values[z][i]
              /\ o.values[z][n + 1] = cyIn.values[z][1]
        /\ Len(o.values) = Len(cyIn.values)
        /\ o.attrs = cyIn.attrs /\ o.encoding = cyIn.encoding
        /\ o.dims = cyIn.dims /\ o.lat = cyIn.lat

\* C8 as stated: the result has one more longitude, the input's coordinates
\* and columns first, then the first longitude plus 360 with the first
\* column, and the input's attrs and encoding.  Stated for evenly spaced
\* axes of two points or more that are the last dimension.
C8_AppendsFirstPlus360 ==
    (cyOut.status # "none" /\ CyclicInput) =>
        /\ CyclicPadded
        /\ cyOut.da.lon[Len(cyIn.lon) + 1] = cyIn.lon[1] + 360

\* C8 amended: for such an axis the appended longitude is the last one plus
\* the spacing, which is the first plus 360 when the axis spans the globe.
C8_AppendsLastPlusSpacing ==
    (cyOut.status # "none" /\ CyclicInput) =>
        LET n == Len(cyIn.lon)
            step == cyIn.lon[2] - cyIn.lon[1]
        IN  /\ CyclicPadded
            /\ cyOut.da.lon[n + 1] = cyIn.lon[n] + step
            /\ n * step = 360 => cyOut.da.lon[n + 1] = cyIn.lon[1] + 360

\* The padded axis of a part of the globe, with differing columns.
C8_Witness ==
    /\ cyOut.status = "returned"
    /\ cyIn.lon = <<0, 90, 180>>
    /\ cyIn.values[1][1] # cyIn.values[1][3]
    /\ cyOut.da.lon = <<0, 90, 180, 270>>

(***************************************************************************)
(* set_titles_and_labels                                                   *)
(***************************************************************************)

\* A title or label that was never set.
Unset == [text |-> "", fontsize |-> 0, y |-> 0]

\* An optional string argument: <<>> is None.
Optional(S) == {<<>>} \cup {<<x>> : x \in S}

\* ax.set_title(text, fontsize=fs, y=y, loc=loc): y in hundredths of the axes
\* height.
set_title(t, loc, text, fs, y) ==
    [t EXCEPT ![loc] = [text |-> text, fontsize |-> fs, y |-> y]]

\* ax.set_xlabel / ax.set_ylabel(text, fontsize=fs)
set_label(t, which, text, fs) ==
    [t EXCEPT ![which] = [text |-> text, fontsize |-> fs, y |-> 0]]

\* if maintitle is not None: ... fontsize=maintitlefontsize + 2, y=1.12 over a
\* left/right row, fontsize=maintitlefontsize, y=1.04 otherwise.
MainTitle(t, a) ==
    IF a.maintitle = <<>> THEN t
    ELSE IF a.lefttitle # <<>> \/ a.righttitle # <<>>
         THEN set_title(t, "center", a.maintitle[1], a.maintitlefontsize + 2, 112)
         ELSE set_title(t, "center", a.maintitle[1], a.maintitlefontsize, 104)

SideTitle(t, loc, text, fs) ==
    IF text = <<>> THEN t ELSE set_title(t, loc, text[1], fs, 104)

AxisLabel(t, which, text, fs) ==
    IF text = <<>> THEN t ELSE set_label(t, which, text[1], fs)

SetTitlesBody(t, a) ==
    AxisLabel(
        AxisLabel(
            SideTitle(
                SideTitle(MainTitle(t, a), "left", a.lefttitle, a.lefttitlefontsize),
                "right", a.righttitle, a.righttitlefontsize),
            "xlabel", a.xlabel, a.labelfontsize),
        "ylabel", a.ylabel, a.labelfontsize)

IdleTitles ==
    /\ titles = [loc \in {"center", "left", "right", "xlabel", "ylabel"} |-> Unset]
    /\ titleCall = <<>> /\ titleCalls = 0

set_titles_and_labels ==
    /\ titleCalls < MaxTitleCalls
    /\ \E maintitle \in Optional({"M"}), lefttitle \in Optional({"L"}),
          righttitle \in Optional({"R"}), xlabel \in Optional({"x"}),
          ylabel \in Optional({"y"}), mfs \in {18, 12}, lfs \in {18, 14} :
          LET a == [maintitle |-> maintitle, maintitlefontsize |-> mfs,
                    lefttitle |-> lefttitle, lefttitlefontsize |-> lfs,
                    righttitle |-> righttitle, righttitlefontsize |-> 18,
                    xlabel |-> xlabel, ylabel |-> ylabel, labelfontsize |-> 16]
          IN  /\ titleCall' = a
              /\ titles' = SetTitlesBody(titles, a)
    /\ titleCalls' = titleCalls + 1

\* C9: a call sets the titles and labels whose argument is not None and
\* leaves the others as they were; the main title has size maintitlefontsize
\* and sits directly above the axes when no left or right title is given,
\* above the left/right row when one is; the left and right titles have
\* their own sizes and sit directly above the axes.
C9_TitlesAsDocumented ==
    [][titleCalls' # titleCalls =>
        LET a == titleCall'
            row == a.lefttitle # <<>> \/ a.righttitle # <<>>
        IN  /\ a.maintitle = <<>> => titles'.center = titles.center
            /\ a.maintitle # <<>> =>
                  /\ titles'.center.text = a.maintitle[1]
                  /\ titles'.center.fontsize = a.maintitlefontsize
                  /\ row => titles'.center.y > 104
                  /\ ~row => titles'.center.y = 104
            /\ a.lefttitle = <<>> => titles'.left = titles.left
            /\ a.lefttitle # <<>> =>
                  titles'.left = [text |-> a.lefttitle[1],
                                  fontsize |-> a.lefttitlefontsize, y |-> 104]
            /\ a.righttitle = <<>> => titles'.right = titles.right
            /\ a.righttitle # <<>> =>
                  titles'.right = [text |-> a.righttitle[1],
                                   fontsize |-> a.righttitlefontsize, y |-> 104]
            /\ a.xlabel = <<>> => titles'.xlabel = titles.xlabel
            /\ a.xlabel # <<>> => titles'.xlabel.text = a.xlabel[1]
            /\ a.ylabel = <<>> => titles'.ylabel = titles.ylabel
            /\ a.ylabel # <<>> => titles'.ylabel.text = a.ylabel[1]
    ]_vars

(***************************************************************************)
(* nclize_axis, make_byr_cmap                                              *)
(***************************************************************************)

\* Entries of warnings.filters: (action, category).
FilterItems == {<<"always", "DeprecationWarning">>,
                <<"ignore", "DeprecationWarning">>,
                <<"error", "Warning">>}

\* Filter lists without a repeated entry, as simplefilter and
\* filterwarnings keep them.
FilterLists ==
    {fl \in SeqUpTo(FilterItems, MaxFilters) :
        \A i, j \in 1..Len(fl) : i # j => fl[i] # fl[j]}

\* list.remove(item): without the first occurrence of item.
Remove(fl, item) ==
    IF \E i \in 1..Len(fl) : fl[i] = item
    THEN LET k == CHOOSE i \in 1..Len(fl) :
                    fl[i] = item /\ \A j \in 1..(i - 1) : fl[j] # item
         IN  SubSeq(fl, 1, k - 1) \o SubSeq(fl, k + 1, Len(fl))
    ELSE fl

\* warnings.simplefilter(action, category): _add_filter(..., append=False)
\* removes an equal entry and inserts the new one in front.
simplefilter(fl, action, category) ==
    <<<<action, category>>>> \o Remove(fl, <<action, category>>)

\* The action warnings.warn finds for a DeprecationWarning: that of the first
\* entry whose category it is an instance of, "default" when there is none.
WarnAction(fl) ==
    LET hits == {i \in 1..Len(fl) : fl[i][2] \in {"DeprecationWarning", "Warning"}}
    IN  IF hits = {} THEN "default"
        ELSE fl[CHOOSE i \in hits : \A j \in hits : i <= j][1]

\* warnings.filters.pop(0)
pop0(fl) == Tail(fl)

\* The three warning lines of a deprecated function, on the filter list and
\* the log: [filters, log, raised].
Deprecate(fl, log, fn) ==
    LET f1 == simplefilter(fl, "always", "DeprecationWarning")
        act == WarnAction(f1)
    IN  IF act = "error" THEN [filters |-> f1, log |-> log, raised |-> TRUE]
        ELSE [filters |-> pop0(f1),
              log |-> IF act = "ignore" THEN log ELSE Append(log, fn),
              raised |-> FALSE]

\* add_major_minor_ticks(ax, x_minor_per_major=m, y_minor_per_major=m)
add_major_minor_ticks(x_minor_per_major, y_minor_per_major) ==
    [x |-> x_minor_per_major, y |-> y_minor_per_major]

IdleWarn ==
    /\ filters = <<>> /\ warnLog = <<>> /\ axTicks = [x |-> 0, y |-> 0]
    /\ deprCall = <<>> /\ deprCalls = 0

InitWarn ==
    /\ filters \in FilterLists /\ warnLog = <<>> /\ axTicks = [x |-> 0, y |-> 0]
    /\ deprCall = <<>> /\ deprCalls = 0

nclize_axis ==
    /\ deprCalls < MaxDeprCalls
    /\ \E minor_per_major \in {2, 3} :
          LET w == Deprecate(filters, warnLog, "nclize_axis")
          IN  /\ filters' = w.filters
              /\ warnLog' = w.log
              /\ axTicks' = IF w.raised THEN axTicks
                            ELSE add_major_minor_ticks(minor_per_major, minor_per_major)
              /\ deprCall' = [fn |-> "nclize_axis", arg |-> minor_per_major,
                              result |-> IF w.raised THEN "raised" ELSE "None"]
    /\ deprCalls' = deprCalls + 1

make_byr_cmap ==
    /\ deprCalls < MaxDeprCalls
    /\ LET w == Deprecate(filters, warnLog, "make_byr_cmap")
       IN  /\ filters' = w.filters
           /\ warnLog' = w.log
           /\ deprCall' = [fn |-> "make_byr_cmap", arg |-> 0,
                           result |-> IF w.raised THEN "raised" ELSE "BlueYellowRed"]
    /\ deprCalls' = deprCalls + 1
    /\ UNCHANGED axTicks

\* C10: a deprecated call shows its DeprecationWarning without aborting,
\* delegates to the replacement, and leaves warnings.filters as it was,
\* whatever the list held and however many deprecated calls came before.
C10_FiltersRestored ==
    [][deprCalls' # deprCalls =>
        /\ deprCall'.result # "raised"
        /\ warnLog' = Append(warnLog, deprCall'.fn)
        /\ deprCall'.fn = "nclize_axis" =>
              axTicks' = [x |-> deprCall'.arg, y |-> deprCall'.arg]
        /\ deprCall'.fn = "make_byr_cmap" => deprCall'.result = "BlueYellowRed"
        /\ filters' = filters
    ]_vars

(***************************************************************************)
(* Specifications: one per function, the state of the others at rest.      *)
(***************************************************************************)
InitLabelsSpec ==
    InitLabels /\ IdleCmap /\ IdleCyclic /\ IdleTitles /\ IdleWarn
NextLabels ==
    plotCLabels /\ UNCHANGED <<cmapVars, cyclicVars, titleVars, warnVars>>
SpecLabels == InitLabelsSpec /\ [][NextLabels]_vars

InitCmap ==
    IdleLabels /\ IdleCmap /\ IdleCyclic /\ IdleTitles /\ IdleWarn
NextCmap ==
    truncate_colormap /\ UNCHANGED <<labelVars, cyclicVars, titleVars, warnVars>>
SpecCmap == InitCmap /\ [][NextCmap]_vars

InitCyclic ==
    /\ IdleLabels /\ IdleCmap /\ IdleTitles /\ IdleWarn
    /\ cyIn \in InputArrays /\ cyOut = NotCalled
NextCyclic ==
    xr_add_cyclic_longitudes /\ UNCHANGED <<labelVars, cmapVars, titleVars, warnVars>>
SpecCyclic == InitCyclic /\ [][NextCyclic]_vars

InitTitles ==
    IdleLabels /\ IdleCmap /\ IdleCyclic /\ IdleTitles /\ IdleWarn
NextTitles ==
    set_titles_and_labels /\ UNCHANGED <<labelVars, cmapVars, cyclicVars, warnVars>>
SpecTitles == InitTitles /\ [][NextTitles]_vars

InitDeprecated ==
    IdleLabels /\ IdleCmap /\ IdleCyclic /\ IdleTitles /\ InitWarn
NextDeprecated ==
    \/ nclize_axis /\ UNCHANGED <<labelVars, cmapVars, cyclicVars, titleVars>>
    \/ make_byr_cmap /\ UNCHANGED <<labelVars, cmapVars, cyclicVars, titleVars>>
SpecDeprecated == InitDeprecated /\ [][NextDeprecated]_vars

====
